---- MODULE Spec2Model ----
(***************************************************************************)
(* Model of the ticket workflow / SLA rule engine of the ServiceDesk       *)
(* frontend (src/src/utils/ticketUtils.js) together with the agent         *)
(* dashboard handler that drives it (TechnicalUserDashboard.jsx,           *)
(* handleStatusChange).                                                    *)
(*                                                                         *)
(* Time.  JavaScript timestamps are milliseconds and calculateHoursOpen    *)
(* returns the rational (now - created) / 3600000.  The model keeps time   *)
(* in ticks, TicksPerHour ticks to the hour, and represents an hour value  *)
(* h by the integer h * TicksPerHour, so that "hoursOpen > target" is      *)
(* compared exactly as "ticks > target * TicksPerHour".                    *)
(*                                                                         *)
(* JavaScript values.  A property lookup obj[key] on an object literal     *)
(* yields the own property, else the property inherited from               *)
(* Object.prototype (a function), else undefined.  Lookup results are      *)
(* tagged records so that all three outcomes are kept apart.               *)
(***************************************************************************)
EXTENDS Integers, Sequences, FiniteSets, TLC

\* ---------------------------------------------------------------- bounds
TicksPerHour == 1
MaxHours == 74
MaxSkew == 1
MaxUser == 2
MaxSeconds == 12
MaxItems == 12

MaxClock == MaxHours * TicksPerHour

\* ------------------------------------------------------------ value sets
TICKET_STATUSES == {"New", "Open", "Pending", "Closed"}

TICKET_PRIORITIES == {"Low", "Medium", "High", "Critical"}

\* Property names every object literal inherits from Object.prototype.
ObjectPrototypeKeys ==
  {"constructor", "toString", "valueOf", "hasOwnProperty", "isPrototypeOf",
   "propertyIsEnumerable", "toLocaleString", "__proto__"}

\* Status strings a ticket or a status update may carry: the enumerated ones
\* and 'In Progress', which the agent dashboard itself submits.
StatusValues == TICKET_STATUSES \cup {"In Progress"}

\* Priority strings a ticket received from the backend may carry: the
\* enumerated ones, a value that is no property at all, and a value that
\* names an inherited property.
PriorityValues == TICKET_PRIORITIES \cup {"Urgent", "constructor"}

Roles == {"Normal User", "Technical User", "System Admin"}

Null == 0

UserIds == 1 .. MaxUser

Tickets ==
  [status : StatusValues, priority : PriorityValues,
   created_at : {0, MaxSkew * TicksPerHour},
   assigned_to : UserIds \cup {Null}, created_by : UserIds]

\* clock, ticket, result: the engine, the ticket it is given and the last
\* value it returned.  app: the state of the App component and localStorage.
\* dialog: the state of an open TicketDetailDialog.
VARIABLES clock, ticket, result, app, dialog, socket, dashboard, modal

vars ==
  <<clock, ticket, result, app, dialog, socket, dashboard, modal>>

\* ---------------------------------------------------------- JS helpers
JsNumber(n) == [type |-> "number", num |-> n]

JsFunction == [type |-> "function", num |-> 0]

JsUndefined == [type |-> "undefined", num |-> 0]

\* ToBoolean of a lookup result: undefined and 0 are falsy.
Truthy(v) == v.type = "function" \/ (v.type = "number" /\ v.num # 0)

\* a > b for a numeric a (scaled hours): a non-numeric b converts to NaN and
\* every comparison with NaN is false.
JsGreater(a, b) == b.type = "number" /\ a > b.num * TicksPerHour

\* ------------------------------------------------------ transition table
STATUS_TRANSITIONS_Reopen ==
  [s \in TICKET_STATUSES |->
     CASE s = "New" -> <<"Open", "Closed">>
       [] s = "Open" -> <<"Pending", "Closed">>
       [] s = "Pending" -> <<"Open", "Closed">>
       [] s = "Closed" -> <<"Open">>]

STATUS_TRANSITIONS_Swapped ==
  [s \in TICKET_STATUSES |->
     CASE s = "New" -> <<"Closed", "Open">>
       [] s = "Open" -> <<"Pending", "Closed">>
       [] s = "Pending" -> <<"Open", "Closed">>
       [] s = "Closed" -> <<>>]

\* A Pending ticket must be taken up again before it can be closed.
STATUS_TRANSITIONS_NoDirectClose ==
  [s \in TICKET_STATUSES |->
     CASE s = "New" -> <<"Open", "Closed">>
       [] s = "Open" -> <<"Pending", "Closed">>
       [] s = "Pending" -> <<"Open">>
       [] s = "Closed" -> <<>>]

STATUS_TRANSITIONS ==
  [s \in TICKET_STATUSES |->
     CASE s = "New" -> <<"Open", "Closed">>
       [] s = "Open" -> <<"Pending", "Closed">>
       [] s = "Pending" -> <<"Open", "Closed">>
       [] s = "Closed" -> <<>>]

\* Array.prototype.includes
Includes(seq, x) == \E i \in 1 .. Len(seq) : seq[i] = x

\* STATUS_TRANSITIONS[currentStatus] || []
getValidTransitions(currentStatus) ==
  IF currentStatus \in DOMAIN STATUS_TRANSITIONS
    THEN [type |-> "array", items |-> STATUS_TRANSITIONS[currentStatus]]
    ELSE IF currentStatus \in ObjectPrototypeKeys
      THEN [type |-> "function", items |-> <<>>]
      ELSE [type |-> "array", items |-> <<>>]

\* .includes exists on arrays only: on a function value the call throws.
canTransitionToThrows(currentStatus) ==
  getValidTransitions(currentStatus).type # "array"

canTransitionTo(currentStatus, newStatus) ==
  Includes(getValidTransitions(currentStatus).items, newStatus)

\* ------------------------------------------------------------------ SLA
SLA_TARGETS ==
  [p \in TICKET_PRIORITIES |->
     CASE p = "Critical" -> 4
       [] p = "High" -> 8
       [] p = "Medium" -> 24
       [] p = "Low" -> 72]

\* SLA_TARGETS[priority]
SLA_TARGETS_get(priority) ==
  IF priority \in DOMAIN SLA_TARGETS THEN JsNumber(SLA_TARGETS[priority])
    ELSE IF priority \in ObjectPrototypeKeys THEN JsFunction
      ELSE JsUndefined

\* SLA_TARGETS[ticket.priority] || 24
slaTarget(priority) ==
  IF Truthy(SLA_TARGETS_get(priority)) THEN SLA_TARGETS_get(priority)
    ELSE JsNumber(24)

\* (new Date() - new Date(createdAt)) / (1000 * 60 * 60), in ticks; the
\* current time is read from the clock, not passed in.
calculateHoursOpen_Clamped(createdAt) ==
  IF clock - createdAt < 0 THEN 0 ELSE clock - createdAt

calculateHoursOpen(createdAt) == clock - createdAt

checkSLAViolation_NoClosedCheck(t) ==
  JsGreater(calculateHoursOpen(t.created_at), slaTarget(t.priority))

\* A ticket older than the longest target no longer counts as violated.
checkSLAViolation_UntilAged(t) ==
  IF t.status = "Closed" THEN FALSE
    ELSE /\ JsGreater(calculateHoursOpen(t.created_at), slaTarget(t.priority))
         /\ calculateHoursOpen(t.created_at) <= 72 * TicksPerHour

checkSLAViolation(t) ==
  IF t.status = "Closed" THEN FALSE
    ELSE JsGreater(calculateHoursOpen(t.created_at), slaTarget(t.priority))

\* Auto-assignment offered only while the ticket is not Closed.
shouldAutoAssign_OpenOnly(t) ==
  t.priority = "Critical" /\ t.assigned_to = Null /\ t.status # "Closed"

\* ticket.priority === 'Critical' && !ticket.assigned_to
shouldAutoAssign(t) == t.priority = "Critical" /\ t.assigned_to = Null

\* ---------------------------------------------------------------- aging
\* The four aging buckets, each a half-open range [lower, upper) of hours
\* open; the last one has no upper end.
AgingBuckets ==
  << [lower |-> 0, upper |-> 24, bounded |-> TRUE,
      rangeLabel |-> "0-24 hours", severity |-> "low"],
     [lower |-> 24, upper |-> 48, bounded |-> TRUE,
      rangeLabel |-> "24-48 hours", severity |-> "medium"],
     [lower |-> 48, upper |-> 72, bounded |-> TRUE,
      rangeLabel |-> "48-72 hours", severity |-> "high"],
     [lower |-> 72, upper |-> 72, bounded |-> FALSE,
      rangeLabel |-> "72+ hours", severity |-> "critical"] >>

\* Upper ends taken inclusive.
InBucket_Inclusive(b, hoursOpen) ==
  /\ hoursOpen >= b.lower * TicksPerHour
  /\ b.bounded => hoursOpen <= b.upper * TicksPerHour

InBucket(b, hoursOpen) ==
  /\ hoursOpen >= b.lower * TicksPerHour
  /\ b.bounded => hoursOpen < b.upper * TicksPerHour

\* The buckets that match the hours a ticket has been open, in table order.
agingBucket(createdAt) ==
  LET Matches(b) == InBucket(b, calculateHoursOpen(createdAt))
  IN SelectSeq(AgingBuckets, Matches)

\* ----------------------------------------------------------- escalation
Rule(type, reason) == [type |-> type, reason |-> reason]

\* Rule 2 without its priority test.
EscalationRulesFor_AnyPriority(t, hoursOpen) ==
  (IF t.priority = "Critical" /\ hoursOpen > 2 * TicksPerHour
     THEN <<Rule("escalate", "Critical ticket open > 2 hours")>> ELSE <<>>)
  \o (IF hoursOpen > 4 * TicksPerHour
        THEN <<Rule("escalate", "High priority ticket open > 4 hours")>>
        ELSE <<>>)
  \o (IF hoursOpen > 24 * TicksPerHour /\ t.assigned_to = Null
        THEN <<Rule("auto_assign", "Unassigned ticket > 24 hours")>>
        ELSE <<>>)

\* Thresholds compared with >= instead of >.
EscalationRulesFor_Inclusive(t, hoursOpen) ==
  (IF t.priority = "Critical" /\ hoursOpen >= 2 * TicksPerHour
     THEN <<Rule("escalate", "Critical ticket open > 2 hours")>> ELSE <<>>)
  \o (IF t.priority = "High" /\ hoursOpen >= 4 * TicksPerHour
        THEN <<Rule("escalate", "High priority ticket open > 4 hours")>>
        ELSE <<>>)
  \o (IF hoursOpen >= 24 * TicksPerHour /\ t.assigned_to = Null
        THEN <<Rule("auto_assign", "Unassigned ticket > 24 hours")>>
        ELSE <<>>)

\* The three pushes of getEscalationRules for a given value of its local
\* hoursOpen.
EscalationRulesFor(t, hoursOpen) ==
  (IF t.priority = "Critical" /\ hoursOpen > 2 * TicksPerHour
     THEN <<Rule("escalate", "Critical ticket open > 2 hours")>> ELSE <<>>)
  \o (IF t.priority = "High" /\ hoursOpen > 4 * TicksPerHour
        THEN <<Rule("escalate", "High priority ticket open > 4 hours")>>
        ELSE <<>>)
  \o (IF hoursOpen > 24 * TicksPerHour /\ t.assigned_to = Null
        THEN <<Rule("auto_assign", "Unassigned ticket > 24 hours")>>
        ELSE <<>>)

getEscalationRules(t) ==
  EscalationRulesFor(t, calculateHoursOpen(t.created_at))

\* ------------------------------------------------------------- workflow
\* `Cannot transition from ${ticket.status} to ${newStatus}`
TransitionError(from, to) == <<"Cannot transition from ", from, " to ", to>>

CloseError == <<"Only assigned agent can close ticket">>

\* Returns after the first error.
validateWorkflow_ShortCircuit(t, newStatus, userRole) ==
  IF canTransitionToThrows(t.status)
    THEN [threw |-> TRUE, isValid |-> FALSE, errors |-> <<>>]
    ELSE
      LET e1 == IF ~canTransitionTo(t.status, newStatus)
                  THEN <<TransitionError(t.status, newStatus)>> ELSE <<>>
          e2 == IF Len(e1) = 0 /\ newStatus = "Closed"
                     /\ userRole = "Normal User"
                     /\ t.created_by # t.assigned_to
                  THEN <<CloseError>> ELSE <<>>
          errors == e1 \o e2
      IN [threw |-> FALSE, isValid |-> Len(errors) = 0, errors |-> errors]

\* Close rule applied whatever the role.
validateWorkflow_AnyRole(t, newStatus, userRole) ==
  IF canTransitionToThrows(t.status)
    THEN [threw |-> TRUE, isValid |-> FALSE, errors |-> <<>>]
    ELSE
      LET e1 == IF ~canTransitionTo(t.status, newStatus)
                  THEN <<TransitionError(t.status, newStatus)>> ELSE <<>>
          e2 == IF newStatus = "Closed" /\ t.created_by # t.assigned_to
                  THEN <<CloseError>> ELSE <<>>
          errors == e1 \o e2
      IN [threw |-> FALSE, isValid |-> Len(errors) = 0, errors |-> errors]

\* Transition check left out.
validateWorkflow_NoTransitionCheck(t, newStatus, userRole) ==
  IF canTransitionToThrows(t.status)
    THEN [threw |-> TRUE, isValid |-> FALSE, errors |-> <<>>]
    ELSE
      LET e2 == IF newStatus = "Closed" /\ userRole = "Normal User"
                     /\ t.created_by # t.assigned_to
                  THEN <<CloseError>> ELSE <<>>
      IN [threw |-> FALSE, isValid |-> Len(e2) = 0, errors |-> e2]

validateWorkflow(t, newStatus, userRole) ==
  IF canTransitionToThrows(t.status)
    THEN [threw |-> TRUE, isValid |-> FALSE, errors |-> <<>>]
    ELSE
      LET e1 == IF ~canTransitionTo(t.status, newStatus)
                  THEN <<TransitionError(t.status, newStatus)>> ELSE <<>>
          e2 == IF newStatus = "Closed" /\ userRole = "Normal User"
                     /\ t.created_by # t.assigned_to
                  THEN <<CloseError>> ELSE <<>>
          errors == e1 \o e2
      IN [threw |-> FALSE, isValid |-> Len(errors) = 0, errors |-> errors]

\* ------------------------------------------------- last evaluation made
NoValidation == [threw |-> FALSE, isValid |-> FALSE, errors |-> <<>>]

\* hours: a returned hour value (in ticks); alert: the lines of an alert()
\* shown by a handler.
Result(op, newStatus, role, bool, target, list, validation, sent) ==
  [op |-> op, newStatus |-> newStatus, role |-> role, bool |-> bool,
   target |-> target, list |-> list, validation |-> validation,
   sent |-> sent, hours |-> 0, alert |-> <<>>]

NoResult ==
  Result("none", "", "", FALSE, JsUndefined, <<>>, NoValidation, FALSE)

\* -------------------------------------------------------------- actions
\* null user / no user logged in
NoUser == [id |-> Null, role |-> ""]

\* App after construction: useState(null), '', '', '', false; localStorage
\* holds no token ("" stands for an absent item).
\* localStorage, by item key; "" stands for an absent item (getItem gives
\* null).
StorageKeys == {"token", "access_token"}
EmptyStorage == [k \in StorageKeys |-> ""]

AppInit ==
  [user |-> NoUser, email |-> "", password |-> "", error |-> "",
   loading |-> FALSE, localStorage |-> EmptyStorage, last |-> "none"]

\* No dialog mounted.
\* The ticket where none matters: the login flow, no dialog mounted.
SampleTicket ==
  [status |-> "New", priority |-> "Low", created_at |-> 0,
   assigned_to |-> Null, created_by |-> 1]

\* No TicketDetailDialog mounted (selectedTicket is null).
DialogInit ==
  [open |-> FALSE, currentUser |-> NoUser, ticket |-> SampleTicket,
   isEditing |-> FALSE, editedTicket |-> SampleTicket]

\* WebSocketProvider right after its mount effect has called connect():
\* a socket being opened, no reconnect timer (timer 0), now in seconds.
SocketInit ==
  [ws |-> "connecting", isConnected |-> FALSE, reconnectAttempts |-> 0,
   timer |-> 0, closedAt |-> 0, now |-> 0, last |-> "connect"]

\* The agent dashboard of user 1 before its first fetch has completed: no
\* tickets shown, an empty search box, the mount effect's fetch in flight.
DashboardInit ==
  [user |-> 1, tickets |-> {}, search |-> <<>>, inFlight |-> 1,
   latest |-> {}]

\* DataModal as mounted, here on no data (n: the number of items of its
\* data prop).
ModalInit ==
  [n |-> 0, searchTerm |-> <<>>, sortBy |-> "id", sortOrder |-> "asc",
   currentPage |-> 1, statusFilter |-> "all"]

Init ==
  /\ clock = 0
  /\ ticket \in Tickets
  /\ result = NoResult
  /\ app = AppInit
  /\ dialog = DialogInit
  /\ socket = SocketInit
  /\ dashboard = DashboardInit
  /\ modal = ModalInit

\* Wall-clock time passes.
Tick ==
  /\ clock < MaxClock
  /\ clock' = clock + 1
  /\ result' = NoResult
  /\ UNCHANGED <<ticket, app, dialog, socket, dashboard, modal>>

\* result.target is the local const target; it is not computed on the early
\* return for a Closed ticket.
CheckSLAViolation ==
  /\ result' = Result("checkSLAViolation", "", "", checkSLAViolation(ticket),
                      IF ticket.status = "Closed" THEN JsUndefined
                        ELSE slaTarget(ticket.priority),
                      <<>>, NoValidation, FALSE)
  /\ UNCHANGED <<clock, ticket, app, dialog, socket, dashboard, modal>>

GetEscalationRules ==
  /\ result' = Result("getEscalationRules", "", "", FALSE, JsUndefined,
                      getEscalationRules(ticket), NoValidation, FALSE)
  /\ UNCHANGED <<clock, ticket, app, dialog, socket, dashboard, modal>>

GetValidTransitions ==
  /\ getValidTransitions(ticket.status).type = "array"
  /\ result' = Result("getValidTransitions", "", "", FALSE, JsUndefined,
                      getValidTransitions(ticket.status).items, NoValidation,
                      FALSE)
  /\ UNCHANGED <<clock, ticket, app, dialog, socket, dashboard, modal>>

CanTransitionTo ==
  \E newStatus \in StatusValues :
    /\ ~canTransitionToThrows(ticket.status)
    /\ result' = Result("canTransitionTo", newStatus, "",
                        canTransitionTo(ticket.status, newStatus),
                        JsUndefined, <<>>, NoValidation, FALSE)
    /\ UNCHANGED <<clock, ticket, app, dialog, socket, dashboard, modal>>

ValidateWorkflow ==
  \E newStatus \in StatusValues, userRole \in Roles :
    /\ result' = Result("validateWorkflow", newStatus, userRole, FALSE,
                        JsUndefined, <<>>,
                        validateWorkflow(ticket, newStatus, userRole), FALSE)
    /\ UNCHANGED <<clock, ticket, app, dialog, socket, dashboard, modal>>

\* Agent dashboard: validate, alert and return on failure, otherwise PUT the
\* new status; the backend stores it when the request succeeds (ok).
\* The request sent whatever validateWorkflow answers.
handleStatusChange_NoValidation ==
  \E newStatus \in StatusValues, userRole \in Roles, ok \in BOOLEAN :
    LET validation == validateWorkflow(ticket, newStatus, userRole)
        sent == TRUE
    IN /\ result' = [Result("handleStatusChange", newStatus, userRole, ok,
                            JsUndefined, <<>>, validation, sent)
                       EXCEPT !.alert =
                         IF ~ok THEN <<"Failed to update status">> ELSE <<>>]
       /\ ticket' = IF sent /\ ok THEN [ticket EXCEPT !.status = newStatus]
                                  ELSE ticket
       /\ UNCHANGED <<clock, app, dialog, socket, dashboard, modal>>

handleStatusChange ==
  \E newStatus \in StatusValues, userRole \in Roles, ok \in BOOLEAN :
    LET validation == validateWorkflow(ticket, newStatus, userRole)
        sent == ~validation.threw /\ validation.isValid
    IN /\ result' = [Result("handleStatusChange", newStatus, userRole, ok,
                            JsUndefined, <<>>, validation, sent)
                       EXCEPT !.alert =
                         IF ~sent THEN validation.errors
                           ELSE IF ~ok THEN <<"Failed to update status">>
                             ELSE <<>>]
       /\ ticket' = IF sent /\ ok THEN [ticket EXCEPT !.status = newStatus]
                                  ELSE ticket
       /\ UNCHANGED <<clock, app, dialog, socket, dashboard, modal>>

CalculateHoursOpen ==
  /\ result' = [NoResult EXCEPT !.op = "calculateHoursOpen",
                                !.hours = calculateHoursOpen(ticket.created_at)]
  /\ UNCHANGED <<clock, ticket, app, dialog, socket, dashboard, modal>>

ShouldAutoAssign ==
  /\ result' = [NoResult EXCEPT !.op = "shouldAutoAssign",
                                !.bool = shouldAutoAssign(ticket)]
  /\ UNCHANGED <<clock, ticket, app, dialog, socket, dashboard, modal>>

AgingBucket ==
  /\ result' = [NoResult EXCEPT !.op = "agingBucket",
                                !.list = agingBucket(ticket.created_at)]
  /\ UNCHANGED <<clock, ticket, app, dialog, socket, dashboard, modal>>

\* The engine evaluated as time passes.
NextSla ==
  \/ Tick
  \/ CheckSLAViolation
  \/ GetEscalationRules
  \/ CalculateHoursOpen
  \/ ShouldAutoAssign
  \/ AgingBucket

SpecSla == Init /\ [][NextSla]_vars

\* The workflow rules and the dashboard handler that applies them.
NextWorkflow ==
  \/ GetValidTransitions
  \/ CanTransitionTo
  \/ ValidateWorkflow
  \/ handleStatusChange

SpecWorkflow == Init /\ [][NextWorkflow]_vars

\* ------------------------------------------------------------ App.jsx
\* Roles a logged-in user can carry: the four the switch names and one it
\* does not.
AppRoles ==
  {"Normal User", "Technical User", "Technical Supervisor", "System Admin",
   "Guest"}

\* data.user of a successful login response.
AppUsers == [id : UserIds, role : AppRoles]

EmailValues == {"", "ann@example.com", "bob@example.com"}
PasswordValues == {"", "secret", "wrong"}

\* err.message of a rejected fetch, of `throw new Error('Login failed')`,
\* and an error without a message.
LoginErrorMessages == {"Login failed", "Failed to fetch", ""}

\* Unknown roles shown the admin dashboard.
View_AdminDefault(a) ==
  IF a.user = NoUser THEN "LoginForm"
  ELSE CASE a.user.role = "Normal User" -> "NormalUserDashboard"
         [] a.user.role = "Technical User" -> "TechnicalUserDashboard"
         [] a.user.role = "Technical Supervisor"
              -> "TechnicalSupervisorDashboard"
         [] a.user.role = "System Admin" -> "SystemAdminDashboard"
         [] OTHER -> "SystemAdminDashboard"

\* What App renders: `if (!user)` the login form, else the role switch.
View(a) ==
  IF a.user = NoUser THEN "LoginForm"
  ELSE CASE a.user.role = "Normal User" -> "NormalUserDashboard"
         [] a.user.role = "Technical User" -> "TechnicalUserDashboard"
         [] a.user.role = "Technical Supervisor"
              -> "TechnicalSupervisorDashboard"
         [] a.user.role = "System Admin" -> "SystemAdminDashboard"
         [] OTHER -> "NormalUserDashboard"

InitApp ==
  /\ clock = 0
  /\ ticket = SampleTicket
  /\ result = NoResult
  /\ app = AppInit
  /\ dialog = DialogInit
  /\ socket = SocketInit
  /\ dashboard = DashboardInit
  /\ modal = ModalInit

\* onChange of the email input, rendered on the login form only.
setEmail ==
  \E v \in EmailValues :
    /\ View(app) = "LoginForm"
    /\ app' = [app EXCEPT !.email = v, !.last = "setEmail"]
    /\ UNCHANGED <<clock, ticket, result, dialog, socket, dashboard, modal>>

setPassword ==
  \E v \in PasswordValues :
    /\ View(app) = "LoginForm"
    /\ app' = [app EXCEPT !.password = v, !.last = "setPassword"]
    /\ UNCHANGED <<clock, ticket, result, dialog, socket, dashboard, modal>>

\* handleLogin up to its await: the form is submitted (both inputs are
\* `required`, the button is disabled while loading).
handleLogin ==
  /\ View(app) = "LoginForm"
  /\ ~app.loading
  /\ app.email # "" /\ app.password # ""
  /\ app' = [app EXCEPT !.loading = TRUE, !.error = "", !.last = "submit"]
  /\ UNCHANGED <<clock, ticket, result, dialog, socket, dashboard, modal>>

\* The response is ok: setUser(data.user), the token stored, finally.
handleLoginResolved ==
  \E u \in AppUsers :
    /\ app.loading
    /\ app' = [app EXCEPT !.user = u, !.localStorage["token"] = "jwt",
                          !.loading = FALSE,
                          !.last = "loginSucceeded"]
    /\ UNCHANGED <<clock, ticket, result, dialog, socket, dashboard, modal>>

\* The response is not ok or fetch rejects: catch, then finally.
handleLoginRejected ==
  \E msg \in LoginErrorMessages :
    /\ app.loading
    /\ app' = [app EXCEPT !.error = IF msg # "" THEN msg ELSE "Login failed",
                          !.loading = FALSE, !.last = "loginFailed"]
    /\ UNCHANGED <<clock, ticket, result, dialog, socket, dashboard, modal>>

\* The stored item left behind.
handleLogout_KeepToken ==
  /\ View(app) # "LoginForm"
  /\ app' = [app EXCEPT !.user = NoUser, !.email = "", !.password = "",
                        !.last = "logout"]
  /\ UNCHANGED <<clock, ticket, result, dialog, socket, dashboard, modal>>

\* onLogout of whichever dashboard is shown.
handleLogout ==
  /\ View(app) # "LoginForm"
  /\ app' = [app EXCEPT !.user = NoUser, !.email = "", !.password = "",
                        !.localStorage["token"] = "", !.last = "logout"]
  /\ UNCHANGED <<clock, ticket, result, dialog, socket, dashboard, modal>>

NotLoggedInError == <<"You must be logged in to create a ticket.">>

\* CreateTicketForm.handleSubmit, the form shown inside a dashboard: without
\* the stored item it stops with the error, with it the request is posted
\* and succeeds (201) or fails.
handleSubmit ==
  \E created \in BOOLEAN :
    LET token == app.localStorage["access_token"]
        sent == token # ""
    IN /\ View(app) # "LoginForm"
       /\ sent \/ ~created
       /\ result' = [Result("handleSubmit", "", app.user.role, created,
                            JsUndefined, <<>>, NoValidation, sent)
                       EXCEPT !.alert =
                         IF ~sent THEN NotLoggedInError
                           ELSE IF ~created
                             THEN <<"Failed to connect to the server.">>
                             ELSE <<>>]
       /\ app' = [app EXCEPT !.last = "handleSubmit"]
       /\ UNCHANGED <<clock, ticket, dialog, socket, dashboard, modal>>

NextApp ==
  \/ setEmail
  \/ setPassword
  \/ handleLogin
  \/ handleLoginResolved
  \/ handleLoginRejected
  \/ handleLogout
  \/ handleSubmit

SpecApp == InitApp /\ [][NextApp]_vars

\* ----------------------------------------------- TicketDetailDialog.jsx
\* The users the dialog is opened by: an end user and an agent.
DialogRoles == {"Normal User", "Technical User"}
DialogUsers == [id : UserIds, role : DialogRoles]

\* <option> values of the status, priority (two of its four) and
\* assigned-agent selects.
StatusOptions == {"New", "Open", "Pending", "Closed"}
PriorityOptions == {"Medium", "High"}
AgentOptions == UserIds \cup {Null}

\* Normal users may edit their own tickets, Closed ones too.
canEdit_IgnoreClosed(currentUser, t) ==
  \/ currentUser.role # "Normal User"
  \/ (/\ currentUser.role = "Normal User"
      /\ t.created_by = currentUser.id)

canEdit(currentUser, t) ==
  \/ currentUser.role # "Normal User"
  \/ (/\ currentUser.role = "Normal User"
      /\ t.created_by = currentUser.id
      /\ t.status # "Closed")

\* The tickets a dashboard lists.
InitDialog ==
  /\ clock = 0
  /\ ticket \in {t \in Tickets : /\ t.priority = "Medium"
                                /\ t.created_at = 0
                                /\ t.created_by = 1}
  /\ result = NoResult
  /\ app = AppInit
  /\ dialog = DialogInit
  /\ socket = SocketInit
  /\ dashboard = DashboardInit
  /\ modal = ModalInit

\* A dashboard's setSelectedTicket(ticket): the dialog is mounted with the
\* ticket as it is then, editedTicket = useState(ticket).
setSelectedTicket ==
  \E u \in DialogUsers :
    /\ ~dialog.open
    /\ dialog' = [open |-> TRUE, currentUser |-> u, ticket |-> ticket,
                  isEditing |-> FALSE, editedTicket |-> ticket]
    /\ result' = NoResult
    /\ UNCHANGED <<clock, ticket, app, socket, dashboard, modal>>

\* onClose: setSelectedTicket(null), the dialog is unmounted.
onClose ==
  /\ dialog.open
  /\ dialog' = DialogInit
  /\ result' = NoResult
  /\ UNCHANGED <<clock, ticket, app, socket, dashboard, modal>>

\* The Edit / Cancel button, rendered when canEdit.
setIsEditing ==
  /\ dialog.open
  /\ canEdit(dialog.currentUser, dialog.ticket)
  /\ dialog' = [dialog EXCEPT !.isEditing = ~dialog.isEditing]
  /\ result' = NoResult
  /\ UNCHANGED <<clock, ticket, app, socket, dashboard, modal>>

\* onChange of the three selects, rendered in edit mode.
setEditedStatus ==
  \E v \in StatusOptions :
    /\ dialog.open /\ dialog.isEditing
    /\ dialog' = [dialog EXCEPT !.editedTicket.status = v]
    /\ result' = NoResult
    /\ UNCHANGED <<clock, ticket, app, socket, dashboard, modal>>

setEditedPriority ==
  \E v \in PriorityOptions :
    /\ dialog.open /\ dialog.isEditing
    /\ dialog' = [dialog EXCEPT !.editedTicket.priority = v]
    /\ result' = NoResult
    /\ UNCHANGED <<clock, ticket, app, socket, dashboard, modal>>

setEditedAssignedTo ==
  \E v \in AgentOptions :
    /\ dialog.open /\ dialog.isEditing
    /\ dialog' = [dialog EXCEPT !.editedTicket.assigned_to = v]
    /\ result' = NoResult
    /\ UNCHANGED <<clock, ticket, app, socket, dashboard, modal>>

\* The Save Changes button, rendered in edit mode: PUT of editedTicket. The
\* backend applies it ("applied") or answers with an error status
\* ("refused"), or the fetch rejects ("failed": edit mode is kept). The
\* ticket prop is not refreshed by onUpdate.
handleSaveChanges ==
  \E outcome \in {"applied", "refused", "failed"} :
    /\ dialog.open /\ dialog.isEditing
    /\ ticket' = IF outcome = "applied"
                   THEN [ticket EXCEPT
                           !.status = dialog.editedTicket.status,
                           !.priority = dialog.editedTicket.priority,
                           !.assigned_to = dialog.editedTicket.assigned_to]
                   ELSE ticket
    /\ dialog' = [dialog EXCEPT !.isEditing = (outcome = "failed")]
    /\ result' = Result("handleSaveChanges", dialog.editedTicket.status,
                        dialog.currentUser.role, outcome = "applied",
                        JsUndefined, <<>>, NoValidation, TRUE)
    /\ UNCHANGED <<clock, app, socket, dashboard, modal>>

NextDialog ==
  \/ setSelectedTicket
  \/ onClose
  \/ setIsEditing
  \/ setEditedStatus
  \/ setEditedPriority
  \/ setEditedAssignedTo
  \/ handleSaveChanges

SpecDialog == InitDialog /\ [][NextDialog]_vars

\* ------------------------------------------- the engine on any status
\* The status of a ticket is whatever string the backend stores: the four
\* statuses, 'In Progress', and a string that names an inherited property
\* of the STATUS_TRANSITIONS object.
AnyStatusValues == StatusValues \cup {"constructor"}

InitAnyStatus ==
  /\ clock = 0
  /\ ticket \in [status : AnyStatusValues, priority : {"Medium"},
                 created_at : {0}, assigned_to : UserIds \cup {Null},
                 created_by : UserIds]
  /\ result = NoResult
  /\ app = AppInit
  /\ dialog = DialogInit
  /\ socket = SocketInit
  /\ dashboard = DashboardInit
  /\ modal = ModalInit

NextAnyStatus ==
  \/ GetValidTransitions
  \/ CanTransitionTo
  \/ ValidateWorkflow

SpecAnyStatus == InitAnyStatus /\ [][NextAnyStatus]_vars

\* --------------------------------------------------- WebSocketProvider
\* Math.pow(2, n)
RECURSIVE Pow2(_)
Pow2(n) == IF n = 0 THEN 1 ELSE 2 * Pow2(n - 1)

\* The value of reconnectAttempts that ws.onclose reads. connect() is called
\* by the mount effect (dependency list []) and, from the timer callback,
\* by itself: every connect in use is the one of the first render, whose
\* reconnectAttempts is the useState(0) initial value.
closureReconnectAttempts == 0

InitSocket ==
  /\ clock = 0
  /\ ticket = SampleTicket
  /\ result = NoResult
  /\ app = AppInit
  /\ dialog = DialogInit
  /\ socket = SocketInit
  /\ dashboard = DashboardInit
  /\ modal = ModalInit

\* ws.onopen
onopen ==
  /\ socket.ws = "connecting"
  /\ socket' = [socket EXCEPT !.ws = "open", !.isConnected = TRUE,
                              !.reconnectAttempts = 0, !.last = "onopen"]
  /\ UNCHANGED <<clock, ticket, result, app, dialog, dashboard, modal>>

\* ws.onclose, of a socket that was open or that failed to open.
onclose ==
  /\ socket.ws \in {"connecting", "open"}
  /\ socket' = [socket EXCEPT
                  !.ws = "none", !.isConnected = FALSE,
                  !.timer = IF closureReconnectAttempts < 5
                              THEN Pow2(closureReconnectAttempts) ELSE 0,
                  !.closedAt = socket.now, !.last = "onclose"]
  /\ UNCHANGED <<clock, ticket, result, app, dialog, dashboard, modal>>

\* The setTimeout callback, delay seconds after the close.
reconnectTimeout ==
  /\ socket.timer > 0
  /\ socket.now = socket.closedAt + socket.timer
  /\ socket' = [socket EXCEPT
                  !.reconnectAttempts = socket.reconnectAttempts + 1,
                  !.ws = "connecting", !.timer = 0, !.last = "connect"]
  /\ UNCHANGED <<clock, ticket, result, app, dialog, dashboard, modal>>

\* A second passes; a timer that is due fires first.
SocketTick ==
  /\ socket.now < MaxSeconds
  /\ socket.timer > 0 => socket.now < socket.closedAt + socket.timer
  /\ socket' = [socket EXCEPT !.now = socket.now + 1]
  /\ UNCHANGED <<clock, ticket, result, app, dialog, dashboard, modal>>

NextSocket ==
  \/ onopen
  \/ onclose
  \/ reconnectTimeout
  \/ SocketTick

SpecSocket == InitSocket /\ [][NextSocket]_vars

\* ------------------------------- TechnicalUserDashboard.jsx, TicketList.jsx
\* <option> values of the TicketList status select.
TicketListStatusOptions == {"open", "in-progress", "resolved", "closed"}

\* An agent's dashboard on a ticket as the backend has it (each update is
\* followed by fetchTickets).
InitAgent ==
  /\ clock = 0
  /\ ticket \in {t \in Tickets : t.priority = "Medium" /\ t.created_at = 0}
  /\ result = NoResult
  /\ app = AppInit
  /\ dialog = DialogInit
  /\ socket = SocketInit
  /\ dashboard \in {[DashboardInit EXCEPT !.user = u] : u \in UserIds}
  /\ modal = ModalInit

\* handleStatusUpdate(ticketId, newStatus): PUT /status with the status as
\* given; the backend stores it when it answers ok.
handleStatusUpdate(button, newStatus) ==
  \E ok \in BOOLEAN :
    /\ result' = Result(button, newStatus, "Technical User", ok,
                        JsUndefined, <<>>, NoValidation, TRUE)
    /\ ticket' = IF ok THEN [ticket EXCEPT !.status = newStatus] ELSE ticket
    /\ UNCHANGED <<clock, app, dialog, socket, dashboard, modal>>

\* SLA Violation Alert: 'Take Action' on one of slaViolationTickets (the
\* sla_violated flag is the backend's).
TakeAction ==
  \E sla_violated \in BOOLEAN :
    /\ ticket.assigned_to = dashboard.user
    /\ sla_violated /\ ticket.status # "Closed"
    /\ handleStatusUpdate("TakeAction", "In Progress")

\* Quick actions of a listed ticket.
SetPending ==
  /\ ticket.status # "Closed" /\ ticket.assigned_to = dashboard.user
  /\ ticket.status # "Pending"
  /\ handleStatusUpdate("SetPending", "Pending")

Resolve ==
  /\ ticket.status # "Closed" /\ ticket.assigned_to = dashboard.user
  /\ handleStatusUpdate("Resolve", "Closed")

\* 'Take Ticket' on one of unassignedTickets.
handleTakeTicket ==
  \E ok \in BOOLEAN :
    /\ ticket.assigned_to = Null /\ ticket.status # "Closed"
    /\ result' = Result("handleTakeTicket", "Open", "Technical User", ok,
                        JsUndefined, <<>>, NoValidation, TRUE)
    /\ ticket' = IF ok THEN [ticket EXCEPT !.status = "Open",
                                           !.assigned_to = dashboard.user]
                       ELSE ticket
    /\ UNCHANGED <<clock, app, dialog, socket, dashboard, modal>>

\* TicketList: the status select of a ticket, shown to userRole technical,
\* supervisor and admin; PATCH /status with the option's value.
updateTicketStatus ==
  \E newStatus \in TicketListStatusOptions, ok \in BOOLEAN :
    /\ result' = Result("updateTicketStatus", newStatus, "technical", ok,
                        JsUndefined, <<>>, NoValidation, TRUE)
    /\ ticket' = IF ok THEN [ticket EXCEPT !.status = newStatus] ELSE ticket
    /\ UNCHANGED <<clock, app, dialog, socket, dashboard, modal>>

NextAgent ==
  \/ TakeAction
  \/ SetPending
  \/ Resolve
  \/ handleTakeTicket
  \/ updateTicketStatus

SpecAgent == InitAgent /\ [][NextAgent]_vars

\* --------------------------------- TechnicalUserDashboard.jsx: search box
\* Strings that are searched are sequences of one-character strings.
\* String.prototype.toLowerCase, on the letters that occur.
toLowerCase(str) ==
  [i \in 1 .. Len(str) |->
     CASE str[i] = "V" -> "v"
       [] str[i] = "P" -> "p"
       [] str[i] = "N" -> "n"
       [] str[i] = "S" -> "s"
       [] str[i] = "M" -> "m"
       [] OTHER -> str[i]]

\* String.prototype.includes
StrIncludes(str, term) ==
  \E i \in 0 .. (Len(str) - Len(term)) :
    SubSeq(str, i + 1, i + Len(term)) = term

\* The tickets the backend can return, by number.
Catalog ==
  [n \in 1 .. 4 |->
     CASE n = 1 -> [id |-> <<"T", "1">>, title |-> <<"V", "P", "N">>,
                    description |-> <<"d", "o", "w", "n">>]
       [] n = 2 -> [id |-> <<"T", "2">>, title |-> <<"V", "P", "S">>,
                    description |-> <<"s", "l", "o", "w">>]
       [] n = 3 -> [id |-> <<"T", "3">>, title |-> <<"M", "a", "i", "l">>,
                    description |-> <<"v", "p", "n">>]
       [] n = 4 -> [id |-> <<"T", "4">>, title |-> <<"M", "a", "p">>,
                    description |-> <<"x">>]]

\* What is typed into the search box.
SearchTerms ==
  {<<>>, <<"v">>, <<"v", "p">>, <<"V", "P", "N">>, <<"m">>, <<"x">>}

\* The predicate of the onChange filter.
MatchesSearch(n, search) ==
  \/ StrIncludes(toLowerCase(Catalog[n].id), search)
  \/ StrIncludes(toLowerCase(Catalog[n].title), search)
  \/ StrIncludes(toLowerCase(Catalog[n].description), search)

InitSearch ==
  /\ clock = 0
  /\ ticket = SampleTicket
  /\ result = NoResult
  /\ app = AppInit
  /\ dialog = DialogInit
  /\ socket = SocketInit
  /\ dashboard = DashboardInit
  /\ modal = ModalInit

\* fetchTickets called after an update (Take Ticket, a status change): while
\* loading the dashboard renders the placeholder, the search input is gone.
fetchTickets ==
  /\ dashboard.inFlight = 0
  /\ dashboard' = [dashboard EXCEPT !.inFlight = 1, !.search = <<>>]
  /\ UNCHANGED <<clock, ticket, result, app, dialog, socket, modal>>

\* The fetch completes: setTickets(data), or the catch branch; loading ends
\* and the dashboard is rendered again, with an empty search input.
fetchTicketsCompleted ==
  \E data \in SUBSET DOMAIN Catalog, ok \in BOOLEAN :
    /\ dashboard.inFlight > 0
    /\ dashboard' = [dashboard EXCEPT
                       !.inFlight = dashboard.inFlight - 1,
                       !.tickets = IF ok THEN data ELSE dashboard.tickets,
                       !.latest = IF ok THEN data ELSE dashboard.latest]
    /\ UNCHANGED <<clock, ticket, result, app, dialog, socket, modal>>

\* onChange of the search input: an empty value refetches, any other value
\* filters the tickets now held in state and stores the outcome.
onSearchChange ==
  \E value \in SearchTerms :
    LET search == toLowerCase(value)
    IN /\ dashboard.inFlight = 0
       /\ value # dashboard.search
       /\ dashboard' =
            IF search = <<>>
              THEN [dashboard EXCEPT !.search = value, !.inFlight = 1]
              ELSE [dashboard EXCEPT
                      !.search = value,
                      !.tickets = {n \in dashboard.tickets :
                                     MatchesSearch(n, search)}]
       /\ UNCHANGED <<clock, ticket, result, app, dialog, socket, modal>>

NextSearch ==
  \/ fetchTickets
  \/ fetchTicketsCompleted
  \/ onSearchChange

SpecSearch == InitSearch /\ [][NextSearch]_vars

\* ------------------------------------------------------------ DataModal
itemsPerPage == 10

\* Number.prototype.toString, for 0..99.
Digits == <<"0", "1", "2", "3", "4", "5", "6", "7", "8", "9">>
idToString(i) ==
  IF i < 10 THEN <<Digits[i + 1]>>
    ELSE <<Digits[(i \div 10) + 1], Digits[(i % 10) + 1]>>

\* The i-th item of the data prop: statuses in rotation, two titles.
Item(i) ==
  [id |-> i,
   status |-> CASE i % 4 = 0 -> "New"
                [] i % 4 = 1 -> "Open"
                [] i % 4 = 2 -> "Pending"
                [] OTHER -> "Closed",
   title |-> IF i % 3 = 0 THEN <<"M", "a", "i", "l">> ELSE <<"V", "P", "N">>]

ModalSearchTerms == {<<>>, <<"v">>, <<"M">>, <<"1">>, <<"x">>}
SortByOptions == {"id", "title", "created_at", "status"}
StatusFilterOptions == {"all", "Open", "Closed", "Pending", "New"}

\* matchesSearch && matchesStatus (the items carry no description)
MatchesFilters(m, item) ==
  /\ \/ m.searchTerm = <<>>
     \/ StrIncludes(toLowerCase(item.title), toLowerCase(m.searchTerm))
     \/ StrIncludes(idToString(item.id), m.searchTerm)
  /\ m.statusFilter = "all" \/ item.status = m.statusFilter

\* data.filter(...): the .sort(...) that follows reorders these items and
\* leaves their number, which is all that paging reads, as it is.
filteredData(m) ==
  LET Keep(item) == MatchesFilters(m, item)
  IN SelectSeq([i \in 1 .. m.n |-> Item(i)], Keep)

\* Math.ceil(filteredData.length / itemsPerPage)
totalPages(m) == (Len(filteredData(m)) + itemsPerPage - 1) \div itemsPerPage

Min(a, b) == IF a < b THEN a ELSE b
Max(a, b) == IF a > b THEN a ELSE b

\* filteredData.slice((currentPage - 1) * itemsPerPage,
\*                    currentPage * itemsPerPage)
paginatedData(m) ==
  SubSeq(filteredData(m), (m.currentPage - 1) * itemsPerPage + 1,
         Min(m.currentPage * itemsPerPage, Len(filteredData(m))))

InitModal ==
  /\ clock = 0
  /\ ticket = SampleTicket
  /\ result = NoResult
  /\ app = AppInit
  /\ dialog = DialogInit
  /\ socket = SocketInit
  /\ dashboard = DashboardInit
  /\ modal \in {[ModalInit EXCEPT !.n = n] : n \in 0 .. MaxItems}

setSearchTerm ==
  \E v \in ModalSearchTerms :
    /\ modal' = [modal EXCEPT !.searchTerm = v]
    /\ UNCHANGED <<clock, ticket, result, app, dialog, socket, dashboard>>

setSortBy ==
  \E v \in SortByOptions :
    /\ modal' = [modal EXCEPT !.sortBy = v]
    /\ UNCHANGED <<clock, ticket, result, app, dialog, socket, dashboard>>

setStatusFilter ==
  \E v \in StatusFilterOptions :
    /\ modal' = [modal EXCEPT !.statusFilter = v]
    /\ UNCHANGED <<clock, ticket, result, app, dialog, socket, dashboard>>

setSortOrder ==
  /\ modal' = [modal EXCEPT
                 !.sortOrder = IF modal.sortOrder = "asc" THEN "desc"
                                                          ELSE "asc"]
  /\ UNCHANGED <<clock, ticket, result, app, dialog, socket, dashboard>>

clearFilters ==
  /\ modal' = [modal EXCEPT !.searchTerm = <<>>, !.statusFilter = "all",
                            !.sortBy = "id", !.sortOrder = "asc",
                            !.currentPage = 1]
  /\ UNCHANGED <<clock, ticket, result, app, dialog, socket, dashboard>>

\* The pagination controls are rendered when there are matches and
\* totalPages > 1; Previous is disabled on page 1, Next on the last page.
PreviousPage ==
  /\ Len(filteredData(modal)) # 0 /\ totalPages(modal) > 1
  /\ modal.currentPage # 1
  /\ modal' = [modal EXCEPT !.currentPage = Max(1, modal.currentPage - 1)]
  /\ UNCHANGED <<clock, ticket, result, app, dialog, socket, dashboard>>

NextPage ==
  /\ Len(filteredData(modal)) # 0 /\ totalPages(modal) > 1
  /\ modal.currentPage # totalPages(modal)
  /\ modal' = [modal EXCEPT
                 !.currentPage =
                    Min(totalPages(modal), modal.currentPage + 1)]
  /\ UNCHANGED <<clock, ticket, result, app, dialog, socket, dashboard>>

NextModal ==
  \/ setSearchTerm
  \/ setSortBy
  \/ setStatusFilter
  \/ setSortOrder
  \/ clearFilters
  \/ PreviousPage
  \/ NextPage

SpecModal == InitModal /\ [][NextModal]_vars

\* ================================================================ claims

\* C1: a Closed ticket is never reported as SLA-violated, whatever its
\* priority (known or unknown) and however long ago it was created.
C1_ClosedNeverViolated ==
  (result.op = "checkSLAViolation" /\ ticket.status = "Closed")
    => result.bool = FALSE

\* A Closed Critical ticket evaluated well past its 4 hour target.
C1_Witness ==
  /\ result.op = "checkSLAViolation"
  /\ ticket.status = "Closed"
  /\ ticket.priority = "Critical"
  /\ clock - ticket.created_at > 72 * TicksPerHour
  /\ result.bool = FALSE

\* C2: for a ticket that is not Closed the violation flag equals
\* "hours open > SLA target of the priority" (4, 8, 24, 72, and 24 for every
\* other priority), the comparison being strict.
C2_StrictAgainstTarget ==
  (result.op = "checkSLAViolation" /\ ticket.status # "Closed")
    => (result.bool <=>
          (clock - ticket.created_at) >
            (CASE ticket.priority = "Critical" -> 4
               [] ticket.priority = "High" -> 8
               [] ticket.priority = "Low" -> 72
               [] OTHER -> 24) * TicksPerHour)

\* C3: the SLA target lookup yields 4, 8, 24, 72 for Critical, High, Medium,
\* Low and 24 for every other priority value; it never yields anything else.
C3_TargetLookup ==
  (result.op = "checkSLAViolation" /\ ticket.status # "Closed")
    => /\ result.target.type = "number"
       /\ result.target.num \in {4, 8, 24, 72}
       /\ result.target.num =
            (CASE ticket.priority = "Critical" -> 4
               [] ticket.priority = "High" -> 8
               [] ticket.priority = "Low" -> 72
               [] OTHER -> 24)

\* C4: getValidTransitions returns [Open, Closed] for New, [Pending, Closed]
\* for Open, [Open, Closed] for Pending and [] for Closed, in this order, and
\* canTransitionTo(from, to) is true exactly when to occurs in that sequence.
C4_TransitionTable ==
  LET table == CASE ticket.status = "New" -> <<"Open", "Closed">>
                 [] ticket.status = "Open" -> <<"Pending", "Closed">>
                 [] ticket.status = "Pending" -> <<"Open", "Closed">>
                 [] OTHER -> <<>>
  IN /\ (result.op = "getValidTransitions"
           /\ ticket.status \in {"New", "Open", "Pending", "Closed"})
          => result.list = table
     /\ result.op = "canTransitionTo"
          => (result.bool <=>
                \E i \in 1 .. Len(table) : table[i] = result.newStatus)

\* canTransitionTo answered true for New -> Closed, the second entry.
C4_Witness ==
  /\ result.op = "canTransitionTo"
  /\ ticket.status = "New"
  /\ result.newStatus = "Closed"
  /\ result.bool = TRUE

\* C5: Closed is terminal: getValidTransitions(Closed) is empty,
\* canTransitionTo(Closed, s) is false for every s, and no status change that
\* passed validation leaves Closed.
C5_ClosedTerminal ==
  /\ [](ticket.status = "Closed"
          => /\ result.op = "getValidTransitions" => result.list = <<>>
             /\ result.op = "canTransitionTo" => ~result.bool
             /\ result.op = "validateWorkflow"
                  => ~result.validation.isValid)
  /\ [][ticket.status = "Closed" => ticket'.status = "Closed"]_vars

\* A Closed ticket on which a status change to Open was attempted and
\* refused.
C5_Witness ==
  /\ ticket.status = "Closed"
  /\ result.op = "handleStatusChange"
  /\ result.newStatus = "Open"
  /\ ~result.sent

\* C6: validateWorkflow does not stop at the first violation: when the
\* transition is not in the table and the Normal-User-close rule applies, the
\* errors are the transition reason followed by the close-permission reason.
C6_AccumulatesBoth ==
  (/\ result.op = "validateWorkflow"
   /\ ~canTransitionTo(ticket.status, result.newStatus)
   /\ result.newStatus = "Closed"
   /\ result.role = "Normal User"
   /\ ticket.created_by # ticket.assigned_to)
    => /\ ~result.validation.threw
       /\ ~result.validation.isValid
       /\ result.validation.errors =
            << <<"Cannot transition from ", ticket.status, " to ", "Closed">>,
               <<"Only assigned agent can close ticket">> >>

\* A Closed ticket, close proposed again by a Normal User who is not the
\* assignee: two reasons.
C6_Witness ==
  /\ result.op = "validateWorkflow"
  /\ ticket.status = "Closed"
  /\ result.newStatus = "Closed"
  /\ result.role = "Normal User"
  /\ ticket.created_by # ticket.assigned_to
  /\ Len(result.validation.errors) = 2

\* C7: the close-permission reason is reported exactly when the proposed
\* status is Closed, the role is Normal User and created_by differs from
\* assigned_to.
C7_CloseRuleExact ==
  result.op = "validateWorkflow"
    => ((\E i \in 1 .. Len(result.validation.errors) :
           result.validation.errors[i] =
             <<"Only assigned agent can close ticket">>)
        <=> (/\ result.newStatus = "Closed"
             /\ result.role = "Normal User"
             /\ ticket.created_by # ticket.assigned_to))

\* An allowed close (Open -> Closed) refused for a Normal User only because
\* of the close rule.
C7_Witness ==
  /\ result.op = "validateWorkflow"
  /\ ticket.status = "Open"
  /\ result.newStatus = "Closed"
  /\ result.role = "Normal User"
  /\ ticket.assigned_to # Null
  /\ ticket.created_by # ticket.assigned_to
  /\ result.validation.errors = <<CloseError>>

\* C8: an allowed transition that does not trigger the close rule validates
\* with no errors, and a transition that is not allowed always yields a
\* non-empty error list.
C8_RoundTrip ==
  result.op = "validateWorkflow"
    => /\ (/\ canTransitionTo(ticket.status, result.newStatus)
           /\ ~(/\ result.newStatus = "Closed"
                /\ result.role = "Normal User"
                /\ ticket.created_by # ticket.assigned_to))
            => (result.validation.errors = <<>> /\ result.validation.isValid)
       /\ ~canTransitionTo(ticket.status, result.newStatus)
            => (Len(result.validation.errors) > 0
                  /\ ~result.validation.isValid)

\* Pending -> Open validated for an agent: no errors.
C8_Witness ==
  /\ result.op = "validateWorkflow"
  /\ ticket.status = "Pending"
  /\ result.newStatus = "Open"
  /\ result.role = "Technical User"
  /\ result.validation.isValid

\* C9: getEscalationRules returns, in the fixed order, exactly the rules
\* whose condition holds: Critical and open > 2h; High and open > 4h; open
\* > 24h and unassigned; every threshold strict.
C9_EscalationRules ==
  result.op = "getEscalationRules"
    => LET h == clock - ticket.created_at
           all == << [type |-> "escalate",
                      reason |-> "Critical ticket open > 2 hours"],
                     [type |-> "escalate",
                      reason |-> "High priority ticket open > 4 hours"],
                     [type |-> "auto_assign",
                      reason |-> "Unassigned ticket > 24 hours"] >>
           Fires(r) ==
             \/ r = all[1] /\ ticket.priority = "Critical"
                  /\ h > 2 * TicksPerHour
             \/ r = all[2] /\ ticket.priority = "High"
                  /\ h > 4 * TicksPerHour
             \/ r = all[3] /\ h > 24 * TicksPerHour
                  /\ ticket.assigned_to = Null
       IN result.list = SelectSeq(all, Fires)

\* A Critical, unassigned ticket open 30 hours: rule 1 then rule 3.
C9_Witness ==
  /\ result.op = "getEscalationRules"
  /\ ticket.priority = "Critical"
  /\ ticket.assigned_to = Null
  /\ clock - ticket.created_at = 30 * TicksPerHour
  /\ Len(result.list) = 2
  /\ result.list[1].type = "escalate"
  /\ result.list[2].type = "auto_assign"

\* C10 as stated: each of the counts 0, 1, 2 and 3 is the length of
\* getEscalationRules for some priority, assignment and elapsed time of the
\* ticket.
C10_CountsZeroToThree ==
  result.op = "getEscalationRules"
    => \A n \in 0 .. 3 :
         \E p \in PriorityValues, a \in UserIds \cup {Null},
            h \in (0 - MaxSkew * TicksPerHour) .. MaxClock :
           Len(EscalationRulesFor(
                 [ticket EXCEPT !.priority = p, !.assigned_to = a], h)) = n

\* C10 amended: getEscalationRules returns 0, 1 or 2 entries, each of these
\* counts being attained (at 0, 3 or 25 hours open), and never 3: rules 1
\* and 2 ask for different priorities.
C10_CountsZeroToTwo ==
  result.op = "getEscalationRules"
    => /\ Len(result.list) \in 0 .. 2
       /\ \A n \in 0 .. 2 :
            \E p \in PriorityValues, a \in UserIds \cup {Null},
               h \in {0, 3 * TicksPerHour, 25 * TicksPerHour} :
              Len(EscalationRulesFor(
                    [ticket EXCEPT !.priority = p, !.assigned_to = a], h)) = n

\* A High priority, unassigned ticket open 25 hours: rules 2 and 3, the
\* largest result there is.
C10_Witness ==
  /\ result.op = "getEscalationRules"
  /\ ticket.priority = "High"
  /\ ticket.assigned_to = Null
  /\ clock - ticket.created_at = 25 * TicksPerHour
  /\ Len(result.list) = 2

\* C11: shouldAutoAssign is true exactly for a Critical ticket with no
\* assignee, whatever its status and however long it has been open.
C11_ShouldAutoAssign ==
  result.op = "shouldAutoAssign"
    => (result.bool <=>
          (ticket.priority = "Critical" /\ ticket.assigned_to = 0))

\* A Closed, Critical, unassigned ticket two days old: still true.
C11_Witness ==
  /\ result.op = "shouldAutoAssign"
  /\ ticket.status = "Closed"
  /\ ticket.priority = "Critical"
  /\ ticket.assigned_to = 0
  /\ clock - ticket.created_at > 48 * TicksPerHour
  /\ result.bool

\* C12: for every hoursOpen >= 0 exactly one aging bucket matches: [0,24)
\* '0-24 hours'/low, [24,48) '24-48 hours'/medium, [48,72) '48-72
\* hours'/high, [72,inf) '72+ hours'/critical; 24, 48 and 72 fall in the
\* upper bucket.
C12_AgingBuckets ==
  (result.op = "agingBucket" /\ clock - ticket.created_at >= 0)
    => LET h == clock - ticket.created_at
       IN /\ Len(result.list) = 1
          /\ <<result.list[1].rangeLabel, result.list[1].severity>> =
               (CASE h < 24 * TicksPerHour -> <<"0-24 hours", "low">>
                  [] h >= 24 * TicksPerHour /\ h < 48 * TicksPerHour
                       -> <<"24-48 hours", "medium">>
                  [] h >= 48 * TicksPerHour /\ h < 72 * TicksPerHour
                       -> <<"48-72 hours", "high">>
                  [] OTHER -> <<"72+ hours", "critical">>)

\* A ticket open exactly 48 hours is in the 48-72 bucket only.
C12_Witness ==
  /\ result.op = "agingBucket"
  /\ clock - ticket.created_at = 48 * TicksPerHour
  /\ Len(result.list) = 1
  /\ result.list[1].rangeLabel = "48-72 hours"

\* C13: an evaluation is a function of the ticket and of a 'now' handed in
\* by the caller only: as long as the ticket handed to checkSLAViolation and
\* getEscalationRules is the same, they return the same value.
C13_NoHiddenClock ==
  [][ticket' = ticket
       => /\ checkSLAViolation(ticket)' = checkSLAViolation(ticket)
          /\ getEscalationRules(ticket)' = getEscalationRules(ticket)]_vars

\* C14: validateWorkflow never throws and returns isValid true exactly when
\* its error list is empty, for every current status, proposed status
\* (inside or outside the four statuses) and role.
C14_ResultNotException ==
  result.op = "validateWorkflow"
    => /\ ~result.validation.threw
       /\ result.validation.isValid <=> (Len(result.validation.errors) = 0)

\* C15: calculateHoursOpen returns now - createdAt without clamping; for a
\* ticket created later than now it is negative, checkSLAViolation is false
\* and getEscalationRules is empty.
C15_NegativeNotClamped ==
  /\ result.op = "calculateHoursOpen"
       => result.hours = clock - ticket.created_at
  /\ clock < ticket.created_at
       => /\ result.op = "calculateHoursOpen" => result.hours < 0
          /\ result.op = "checkSLAViolation" => ~result.bool
          /\ result.op = "getEscalationRules" => result.list = <<>>

\* A ticket whose created_at is ahead of the clock: a negative value.
C15_Witness ==
  /\ result.op = "calculateHoursOpen"
  /\ clock < ticket.created_at
  /\ result.hours < 0

\* C19: handleStatusChange sends the update request only when
\* validateWorkflow answers valid; when it answers invalid no request is
\* sent, the ticket is left as it was and the errors are shown.
C19_RequestOnlyWhenValid ==
  /\ [](result.op = "handleStatusChange"
          => /\ result.sent <=> result.validation.isValid
             /\ ~result.validation.isValid
                  => /\ result.alert = result.validation.errors
                     /\ result.alert # <<>>)
  /\ [][(result'.op = "handleStatusChange" /\ ~result'.validation.isValid)
          => ticket' = ticket]_vars

\* A rejected change: nothing sent, the transition error shown.
C19_Witness ==
  /\ result.op = "handleStatusChange"
  /\ ~result.validation.isValid
  /\ ~result.sent
  /\ ticket.status = "Closed"
  /\ result.newStatus = "Open"
  /\ result.alert = <<TransitionError("Closed", "Open")>>

\* C16: App shows the login form exactly while no user is authenticated;
\* otherwise the dashboard of the user's role, NormalUserDashboard for any
\* role outside the four; a failed login leaves the user unauthenticated,
\* an error set and loading false.
C16_LoginAndRouting ==
  /\ (View(app) = "LoginForm") <=> (app.user = [id |-> 0, role |-> ""])
  /\ app.user # [id |-> 0, role |-> ""]
       => View(app) =
            (IF app.user.role = "Technical User"
               THEN "TechnicalUserDashboard"
             ELSE IF app.user.role = "Technical Supervisor"
               THEN "TechnicalSupervisorDashboard"
             ELSE IF app.user.role = "System Admin"
               THEN "SystemAdminDashboard"
             ELSE "NormalUserDashboard")
  /\ app.last = "loginFailed"
       => /\ app.user = [id |-> 0, role |-> ""]
          /\ app.error # ""
          /\ ~app.loading

\* A second login, after a logout, by a user of a role outside the four.
C16_Witness ==
  /\ app.last = "loginSucceeded"
  /\ app.user.role = "Guest"
  /\ View(app) = "NormalUserDashboard"
  /\ app.email = "bob@example.com"

\* C17: a Normal User cannot edit ticket properties: whatever a Normal User
\* does in the ticket detail dialog, a request that is submitted carries the
\* status, priority and assignment the ticket already has.
C17_NormalUserSubmitsNoChange ==
  [][(result'.op = "handleSaveChanges"
        /\ dialog.currentUser.role = "Normal User")
       => /\ dialog.editedTicket.status = ticket.status
          /\ dialog.editedTicket.priority = ticket.priority
          /\ dialog.editedTicket.assigned_to = ticket.assigned_to]_vars

C20_ClosedNeverResubmitted ==
  [][(result'.op = "handleSaveChanges" /\ ticket.status = "Closed")
       => dialog.editedTicket.status = "Closed"]_vars

\* C28: SLA violation is monotone in time: for a ticket whose priority and
\* created_at stay the same, once checkSLAViolation is true it is true at
\* every later time whatever non-Closed status the ticket then has; it is
\* false again only for a ticket that has become Closed.
C28_ViolationMonotone ==
  [][\A s \in StatusValues :
       (/\ checkSLAViolation(ticket)
        /\ ticket'.priority = ticket.priority
        /\ ticket'.created_at = ticket.created_at
        /\ s # "Closed")
         => checkSLAViolation([ticket EXCEPT !.status = s])']_vars

\* A Critical ticket found violated two hours after it first was.
C28_Witness ==
  /\ result.op = "checkSLAViolation"
  /\ result.bool
  /\ ticket.priority = "Critical"
  /\ clock - ticket.created_at = 7 * TicksPerHour

\* C29: the transition relation is a lifecycle: no valid transition has New
\* or the current status as its target, every non-Closed status has Closed
\* among its valid transitions, and no status change that is carried out
\* leads back to New.
C29_Lifecycle ==
  /\ []((result.op = "getValidTransitions"
           /\ ticket.status \in {"New", "Open", "Pending", "Closed"})
          => /\ \A i \in 1 .. Len(result.list) :
                  result.list[i] \notin {"New", ticket.status}
             /\ ticket.status # "Closed"
                  => \E i \in 1 .. Len(result.list) :
                       result.list[i] = "Closed")
  /\ [][ticket'.status # ticket.status
          => /\ ticket'.status # "New"
             /\ ticket.status # "Closed"]_vars

\* The transitions of a Pending ticket: back to Open, or Closed directly.
C29_Witness ==
  /\ result.op = "getValidTransitions"
  /\ ticket.status = "Pending"
  /\ result.list = <<"Open", "Closed">>

\* C24: logout clears the session: starting from an empty localStorage a
\* token is stored only while a user is logged in; after handleLogout the
\* user is null and the token removed; a failed login stores no token.
C24_TokenOnlyWhileLoggedIn ==
  /\ app.localStorage["token"] # "" => app.user # [id |-> 0, role |-> ""]
  /\ app.last = "logout"
       => /\ app.user = [id |-> 0, role |-> ""]
          /\ app.localStorage["token"] = ""
  /\ app.last = "loginFailed" => app.localStorage["token"] = ""

\* Logged out, and a login tried again that failed.
C24_Witness ==
  /\ app.last = "loginFailed"
  /\ result.op = "handleSubmit"
  /\ app.localStorage["token"] = ""
  /\ app.user = [id |-> 0, role |-> ""]

\* C25: after a successful login has stored the JWT, handleSubmit of the
\* create-ticket form finds it and sends the request; it stops with 'You
\* must be logged in to create a ticket.' only when no login has stored a
\* token.
C25_SubmitFindsToken ==
  app.last = "handleSubmit"
    => /\ app.localStorage["token"] # "" => result.sent
       /\ result.alert = <<"You must be logged in to create a ticket.">>
            => app.localStorage["token"] = ""

\* C23: WebSocketProvider reconnects with exponential backoff: a close that
\* follows k consecutive reconnect attempts (k = 0..4) schedules the next
\* attempt 2^k seconds later, a successful open resets the attempt counter
\* to 0, and after 5 consecutive failed attempts no reconnect is scheduled.
C23_ExponentialBackoff ==
  /\ socket.last = "onclose"
       => socket.timer = (IF socket.reconnectAttempts < 5
                            THEN Pow2(socket.reconnectAttempts) ELSE 0)
  /\ socket.last = "onopen" => socket.reconnectAttempts = 0

\* C22: an agent updates only tickets assigned to them: whatever a
\* Technical User submits from the dashboard's ticket detail dialog, a
\* request that changes a ticket's status, priority or assignment is for a
\* ticket that is unassigned or assigned to that user, never for a ticket
\* assigned to someone else.
C22_AgentUpdatesOwnTicketsOnly ==
  [][(/\ result'.op = "handleSaveChanges"
      /\ dialog.currentUser.role = "Technical User"
      /\ \/ dialog.editedTicket.status # ticket.status
         \/ dialog.editedTicket.priority # ticket.priority
         \/ dialog.editedTicket.assigned_to # ticket.assigned_to)
       => ticket.assigned_to \in {0, dialog.currentUser.id}]_vars

\* C21: every status value the frontend submits in a ticket status update
\* is one of the four statuses New, Open, Pending, Closed.
C21_SubmittedStatusEnumerated ==
  (result.op # "none" /\ result.sent)
    => result.newStatus \in {"New", "Open", "Pending", "Closed"}

\* C26: in the agent dashboard, after any search-box inputs and completed
\* fetches, the tickets shown are exactly the tickets of the latest fetch
\* whose id, title or description contains the current search term,
\* case-insensitively; shortening the term restores tickets a longer term
\* had filtered out.
C26_ShownEqualsMatchesOfLatestFetch ==
  dashboard.inFlight = 0
    => dashboard.tickets =
         {n \in dashboard.latest :
            MatchesSearch(n, toLowerCase(dashboard.search))}

\* C27: in DataModal, after any search, status-filter, sort and page
\* actions, currentPage is within 1..max(1, totalPages), so that the page
\* shown is non-empty whenever the filtered data is non-empty.
C27_CurrentPageInRange ==
  /\ modal.currentPage >= 1
  /\ modal.currentPage <= (IF totalPages(modal) > 1 THEN totalPages(modal)
                                                    ELSE 1)
  /\ Len(filteredData(modal)) > 0 => Len(paginatedData(modal)) > 0

====
